---- MODULE Spec2Model ----
(***************************************************************************)
(* A model of src/new.py, the command-line file hasher: argument parsing,  *)
(* path collection (collect_files), the streaming hasher (hash_file) and   *)
(* the main loop that appends one record per hashed file to the output     *)
(* destination.                                                            *)
(*                                                                         *)
(* The environment is a small file system drawn in Init, the command line  *)
(* (paths, --algo), and the content the output destination already holds.  *)
(* Every attempt to open or read an input file may fail.  The output       *)
(* destination itself is taken to be openable for appending, and the       *)
(* console streams to accept every notice.  Timestamp, file type and       *)
(* working directory of a record are data of external collaborators and    *)
(* are left out of the record.                                             *)
(***************************************************************************)
EXTENDS Integers, Sequences, FiniteSets, TLC

\* ------------------------------------------------------------------ bounds

\* Longest list of positional path arguments.
MaxPaths == 2
\* Most records the output destination holds before the run starts.
MaxPrior == 1
\* Longest file content hashed under SpecHash.
MaxLen == 2
\* Largest small chunk size tried under SpecHash (besides CHUNK_SIZE).
MaxChunk == 2

\* ------------------------------------------------------- program constants

\* f.read(8192)
CHUNK_SIZE == 8192

\* The keys of HASH_ALGOS.
HASH_ALGOS == {"sha256", "sha1", "md5"}

\* --algo values tried on the command line: the default, another supported
\* one, and an unsupported one.
AlgoArgs == {"sha256", "md5", "sha512"}

\* ------------------------------------------------------------- file system

\* Path names.  LfFile is a file name that contains a line feed.
Dir == "d"
DirFile == "d/1"
SubDir == "d/s"
LfFile == "d/s/a\nb"
TopFile == "g"

Nodes == {Dir, DirFile, SubDir, LfFile, TopFile}

\* The directory a path lies in ("" for a path given relative to the cwd).
Parent(p) ==
    CASE p = DirFile -> Dir
      [] p = SubDir -> Dir
      [] p = LfFile -> SubDir
      [] OTHER -> ""

\* Whether f lies under directory p at any depth.
RECURSIVE IsUnder(_, _)
IsUnder(f, p) ==
    /\ Parent(f) # ""
    /\ \/ Parent(f) = p
       \/ IsUnder(Parent(f), p)

\* What a path is: a regular file, a directory, something else that exists
\* (a FIFO, a socket, a device), or nothing at all.
Kinds == {"file", "dir", "special", "missing"}

\* The file systems a run may meet: Dir is a directory; below a path that is
\* not a directory nothing exists.
FileSystems ==
    { k \in [Nodes -> Kinds] :
        /\ k[Dir] = "dir"
        /\ k[DirFile] \in {"file", "special", "missing"}
        /\ k[SubDir] \in {"dir", "missing"}
        /\ k[LfFile] \in {"file", "missing"}
        /\ k[SubDir] = "missing" => k[LfFile] = "missing"
        /\ k[TopFile] \in {"file", "special"} }

\* The bytes of each regular file.
Content(f) ==
    CASE f = DirFile -> << >>
      [] f = LfFile -> <<1>>
      [] OTHER -> <<1, 2>>

\* Number of line feed characters in a path name.
LineFeeds(p) == IF p = LfFile THEN 1 ELSE 0

\* Paths given on the command line.
PathArgs == {Dir, SubDir, TopFile}

RECURSIVE SeqsUpTo(_, _)
SeqsUpTo(S, n) ==
    IF n = 0 THEN {<< >>}
    ELSE LET shorter == SeqsUpTo(S, n - 1)
         IN shorter \cup { Append(s, x) : s \in { t \in shorter : Len(t) = n - 1 }, x \in S }

\* The orders in which a directory walk may list the paths of the tree.
Listings ==
    LET below == Nodes \ {Dir, TopFile}
        n == Cardinality(below)
    IN { s \in SeqsUpTo(below, n) :
           /\ Len(s) = n
           /\ \A a, b \in 1..n : a # b => s[a] # s[b] }

VARIABLES
    fs,         \* the file system: path -> kind
    argv,       \* the parsed command line: [paths, algo]
    pc,         \* where main is
    all_files,  \* main's all_files
    i,          \* the loop's 1-based index
    hash_val,   \* the loop's hash_val
    data,       \* the bytes of the file being hashed
    chunk,      \* the size passed to f.read
    out,        \* records written to the output stream and not yet flushed
    disk,       \* the records the output destination holds
    exists,     \* whether the output destination exists
    out_opened, \* whether the run opened the output destination
    stderr,     \* the error notices, in order
    status,     \* the exit status; -1 while running
    attempts,   \* history: one entry per hash_file call
    written,    \* history: the records passed to out.write
    disk0,      \* history: the destination's content when the run started
    exists0     \* history: whether the destination existed then

vars == <<fs, argv, pc, all_files, i, hash_val, data, chunk, out, disk, exists,
          out_opened, stderr, status, attempts, written, disk0, exists0>>

\* ------------------------------------------------------------- hash_file

\* What hash_file returns when it fails, and a digest: the algorithm's name
\* and the bytes it digested (a digest is a function of exactly these).
None == [ok |-> FALSE, algo |-> "", of |-> << >>]

Min(a, b) == IF a < b THEN a ELSE b

\* f.read(n) at offset pos: the next n bytes, fewer at the end of the file.
Read(content, pos, n) == SubSeq(content, pos + 1, Min(pos + n, Len(content)))

\* A read loop that stops at the first chunk shorter than asked for.
ShortChunk(c, n) == Len(c) < n

\* while chunk := f.read(n): the loop ends on the first empty chunk.
LoopEnds(c, n) == c = << >>

\* hasher.update(chunk)
Update(hasher, c) == hasher \o c

\* hasher.hexdigest()
Hexdigest(algo, hasher) == [ok |-> TRUE, algo |-> algo, of |-> hasher]

\* The read loop from offset pos after `reads` reads; read number failAt raises.
RECURSIVE ReadLoop(_, _, _, _, _, _, _)
ReadLoop(content, algo, n, pos, hasher, reads, failAt) ==
    IF failAt = reads + 1
    THEN [hash_val |-> None, opened |-> TRUE, eof |-> FALSE, fed |-> hasher]
    ELSE LET c == Read(content, pos, n)
         IN IF LoopEnds(c, n)
            THEN [hash_val |-> Hexdigest(algo, hasher), opened |-> TRUE,
                  eof |-> c = << >>, fed |-> hasher]
            ELSE ReadLoop(content, algo, n, pos + Len(c), Update(hasher, c),
                          reads + 1, failAt)

\* hash_file(filepath, algo_func) on a file holding content, read n bytes at a
\* time.  failAt = 0: open raises; failAt = k > 0: the k-th read raises; a
\* failAt beyond the last read: nothing raises.
hash_file(content, algo, n, failAt) ==
    IF failAt = 0
    THEN [hash_val |-> None, opened |-> FALSE, eof |-> FALSE, fed |-> << >>]
    ELSE ReadLoop(content, algo, n, 0, << >>, 0, failAt)

\* Where an open or a read may raise.
FailPoints == 0 .. (MaxLen + 2)

\* A test that lets every result through.
FalsyNever(h) == FALSE

\* if not hash_val
Falsy(h) == ~h.ok

\* --------------------------------------------------------- collect_files

is_dir(k, p) == k[p] = "dir"

\* p.exists() in place of p.is_file().
path_exists(k, p) == k[p] # "missing"

is_file(k, p) == k[p] = "file"

\* p.glob('*'): the existing paths directly in p.
glob(k, p, listing) ==
    LET In(f) == Parent(f) = p /\ k[f] # "missing"
    IN SelectSeq(listing, In)

\* p.rglob('*'): every existing path under p, in the walk's order.
rglob(k, p, listing) ==
    LET Below(f) == IsUnder(f, p) /\ k[f] # "missing"
    IN SelectSeq(listing, Below)

InvalidPath(p) == <<"Invalid path", p>>

\* collect_files(paths): the files, and the error notices it logs.
RECURSIVE collect_files(_, _, _)
collect_files(k, paths, listing) ==
    IF paths = << >>
    THEN [files |-> << >>, errors |-> << >>]
    ELSE LET p == Head(paths)
             rest == collect_files(k, Tail(paths), listing)
             IsFile(f) == is_file(k, f)
         IN IF is_dir(k, p)
            THEN [files |-> SelectSeq(rglob(k, p, listing), IsFile) \o rest.files,
                  errors |-> rest.errors]
            ELSE IF is_file(k, p)
            THEN [files |-> <<p>> \o rest.files, errors |-> rest.errors]
            ELSE [files |-> rest.files, errors |-> <<InvalidPath(p)>> \o rest.errors]

\* ------------------------------------------------------------------ main

\* An --algo argument without choices.
AnyChoice(a) == TRUE

\* --algo choices=HASH_ALGOS.keys()
ValidChoice(a) == a \in HASH_ALGOS

\* A run that goes on with an empty list.
NoFilesNever(files) == FALSE

\* if not all_files
NoFiles(files) == files = << >>

\* The log line of one hashed file; it ends in one line feed.
LogLine(file, algo, h) == [file |-> file, algo |-> algo, hash |-> h]

\* The number of text lines a log line occupies in the destination.
Lines(rec) == LineFeeds(rec.file) + 1

\* The for loop: the next file, or the end of the with block.
NextPc(k, total) == IF k < total THEN "hash" ELSE "close"

\* break in place of continue.
Break(k, total) == "close"

\* continue
Continue(k, total) == NextPc(k, total)

\* A stream dropped without being closed loses what is buffered.
CloseDiscard(d, buffered) == d

\* Closing the output stream writes what is buffered.
CloseFlush(d, buffered) == d \o buffered

\* sys.exit(1) when nothing was logged.
FinalStatusByRecords(recs) == IF recs = << >> THEN 1 ELSE 0

\* main returns normally.
FinalStatus(recs) == 0

\* What the destination may hold before the run: records of earlier runs.
PriorRecord == LogLine("old", "sha256", Hexdigest("sha256", <<2>>))

Init ==
    /\ fs \in FileSystems
    /\ argv \in [paths : SeqsUpTo(PathArgs, MaxPaths) \ {<< >>}, algo : AlgoArgs]
    /\ pc = "parse"
    /\ all_files = << >>
    /\ i = 0
    /\ hash_val = None
    /\ data = << >>
    /\ chunk = CHUNK_SIZE
    /\ out = << >>
    /\ exists \in BOOLEAN
    /\ disk \in (IF exists THEN SeqsUpTo({PriorRecord}, MaxPrior) ELSE {<< >>})
    /\ out_opened = FALSE
    /\ stderr = << >>
    /\ status = -1
    /\ attempts = << >>
    /\ written = << >>
    /\ disk0 = disk
    /\ exists0 = exists

\* parser.parse_args(): an --algo outside the choices ends the run with status 2.
ParseArgs ==
    /\ pc = "parse"
    /\ IF ValidChoice(argv.algo)
       THEN /\ pc' = "collect"
            /\ UNCHANGED <<stderr, status>>
       ELSE /\ stderr' = Append(stderr, <<"invalid choice", argv.algo>>)
            /\ status' = 2
            /\ pc' = "exit"
    /\ UNCHANGED <<fs, argv, all_files, i, hash_val, data, chunk, out, disk, exists,
                   out_opened, attempts, written, disk0, exists0>>

\* all_files = collect_files(args.paths)
Collect ==
    /\ pc = "collect"
    /\ \E listing \in Listings :
          LET r == collect_files(fs, argv.paths, listing)
          IN /\ all_files' = r.files
             /\ stderr' = stderr \o r.errors
    /\ pc' = "check"
    /\ UNCHANGED <<fs, argv, i, hash_val, data, chunk, out, disk, exists, out_opened,
                   status, attempts, written, disk0, exists0>>

\* if not all_files: log_error, sys.exit(1)
ExitNoFiles ==
    /\ pc = "check"
    /\ NoFiles(all_files)
    /\ stderr' = Append(stderr, <<"No valid files found.", "">>)
    /\ status' = 1
    /\ pc' = "exit"
    /\ UNCHANGED <<fs, argv, all_files, i, hash_val, data, chunk, out, disk, exists,
                   out_opened, attempts, written, disk0, exists0>>

\* with open(args.output, 'a') as out: creates the destination if absent and
\* leaves its content alone.
OpenOutput ==
    /\ pc = "check"
    /\ ~NoFiles(all_files)
    /\ exists' = TRUE
    /\ out_opened' = TRUE
    /\ i' = 1
    /\ pc' = "hash"
    /\ UNCHANGED <<fs, argv, all_files, hash_val, data, chunk, out, disk, stderr,
                   status, attempts, written, disk0, exists0>>

\* One entry of the history of hash_file calls.
Attempt(file, n, r) ==
    [file |-> file, chunk |-> n, opened |-> r.opened, eof |-> r.eof,
     hash_val |-> r.hash_val, logged |-> FALSE]

\* hash_val = hash_file(file, algo_func); if not hash_val: continue
HashStep ==
    /\ pc = "hash"
    /\ \E failAt \in FailPoints :
          LET file == all_files[i]
              r == hash_file(Content(file), argv.algo, chunk, failAt)
          IN /\ data' = Content(file)
             /\ hash_val' = r.hash_val
             /\ attempts' = Append(attempts, Attempt(file, chunk, r))
             /\ IF Falsy(r.hash_val)
                THEN /\ stderr' = Append(stderr, <<"Failed to hash", file>>)
                     /\ pc' = Continue(i, Len(all_files))
                     /\ i' = i + 1
                ELSE /\ pc' = "write"
                     /\ UNCHANGED <<stderr, i>>
    /\ UNCHANGED <<fs, argv, all_files, chunk, out, disk, exists, out_opened, status,
                   written, disk0, exists0>>

\* out.write(log_line): the line goes to the stream's buffer; the stream may
\* write out what it buffered before (its buffer is full), and may write out
\* the new line as well.
WriteStep ==
    /\ pc = "write"
    /\ LET rec == LogLine(all_files[i], argv.algo, hash_val)
       IN /\ written' = Append(written, rec)
          /\ \E flushed \in 0 .. 2 :
                CASE flushed = 0 -> /\ out' = Append(out, rec)
                                    /\ disk' = disk
                  [] flushed = 1 -> /\ out' = <<rec>>
                                    /\ disk' = disk \o out
                  [] OTHER -> /\ out' = << >>
                              /\ disk' = disk \o Append(out, rec)
    /\ attempts' = [attempts EXCEPT ![Len(attempts)].logged = TRUE]
    /\ pc' = NextPc(i, Len(all_files))
    /\ i' = i + 1
    /\ UNCHANGED <<fs, argv, all_files, hash_val, data, chunk, exists, out_opened,
                   stderr, status, disk0, exists0>>

\* The with block ends: the stream is closed, and main returns.
CloseOutput ==
    /\ pc = "close"
    /\ disk' = CloseFlush(disk, out)
    /\ out' = << >>
    /\ status' = FinalStatus(written)
    /\ pc' = "exit"
    /\ UNCHANGED <<fs, argv, all_files, i, hash_val, data, chunk, exists, out_opened,
                   stderr, attempts, written, disk0, exists0>>

Next ==
    \/ ParseArgs
    \/ Collect
    \/ ExitNoFiles
    \/ OpenOutput
    \/ HashStep
    \/ WriteStep
    \/ CloseOutput

Spec == Init /\ [][Next]_vars

\* The program is one thread: a step that can be taken is taken.
FairSpec == Spec /\ WF_vars(Next)

TypeOK ==
    /\ pc \in {"parse", "collect", "check", "hash", "write", "close", "exit", "hash_file"}
    /\ status \in {-1, 0, 1, 2, 130}
    /\ i \in 0 .. (Len(all_files) + 1)

\* ------------------------------------------------------------- interrupts

\* An interrupt signal raises KeyboardInterrupt in main, between any two steps.
\* Inside the with block the exception closes the output stream on its way out.
Interrupt ==
    /\ pc \in {"parse", "collect", "check", "hash", "write", "close"}
    /\ IF pc \in {"hash", "write", "close"}
       THEN /\ disk' = CloseFlush(disk, out)
            /\ out' = << >>
       ELSE UNCHANGED <<disk, out>>
    /\ status' = 130
    /\ pc' = "exit"
    /\ UNCHANGED <<fs, argv, all_files, i, hash_val, data, chunk, exists, out_opened,
                   stderr, attempts, written, disk0, exists0>>

NextAbort ==
    \/ Next
    \/ Interrupt

SpecAbort == Init /\ [][NextAbort]_vars

\* ------------------------------------------------- hash_file on its own

\* File contents and chunk sizes hash_file is tried on.
Bytes == {1, 2}

Contents == SeqsUpTo(Bytes, MaxLen)

ChunkSizes == (1 .. MaxChunk) \cup {CHUNK_SIZE}

InitHash ==
    /\ fs \in {k \in FileSystems : \A p \in Nodes \ {Dir, TopFile} : k[p] = "missing"}
    /\ fs[TopFile] = "file"
    /\ argv \in [paths : {<<TopFile>>}, algo : HASH_ALGOS]
    /\ pc = "hash_file"
    /\ all_files = <<TopFile>>
    /\ i = 1
    /\ hash_val = None
    /\ data \in Contents
    /\ chunk = CHUNK_SIZE
    /\ out = << >>
    /\ exists = FALSE
    /\ disk = << >>
    /\ out_opened = FALSE
    /\ stderr = << >>
    /\ status = -1
    /\ attempts = << >>
    /\ written = << >>
    /\ disk0 = << >>
    /\ exists0 = FALSE

\* hash_file on the file holding data, with some chunk size; the file is
\* hashed twice.
HashOnly ==
    /\ pc = "hash_file"
    /\ Len(attempts) < 2
    /\ \E n \in ChunkSizes, failAt \in FailPoints :
          LET r == hash_file(data, argv.algo, n, failAt)
          IN /\ chunk' = n
             /\ hash_val' = r.hash_val
             /\ attempts' = Append(attempts, Attempt(TopFile, n, r))
             /\ stderr' = IF Falsy(r.hash_val)
                          THEN Append(stderr, <<"Failed to hash", TopFile>>)
                          ELSE stderr
    /\ UNCHANGED <<fs, argv, pc, all_files, i, data, out, disk, exists, out_opened,
                   status, written, disk0, exists0>>

NextHash == HashOnly

SpecHash == InitHash /\ [][NextHash]_vars

\* ---------------------------------------------------------------- helpers

Range(s) == { s[k] : k \in 1 .. Len(s) }

Count(s, x) == Cardinality({ k \in 1 .. Len(s) : s[k] = x })

IsPrefix(s, t) == Len(s) <= Len(t) /\ SubSeq(t, 1, Len(s)) = s

NoDuplicates(s) == \A a, b \in 1 .. Len(s) : a # b => s[a] # s[b]

RECURSIVE TotalLines(_)
TotalLines(recs) == IF recs = << >> THEN 0 ELSE Lines(Head(recs)) + TotalLines(Tail(recs))

\* The directories a path lies in, at any depth.
RECURSIVE Ancestors(_)
Ancestors(f) == IF Parent(f) = "" THEN {} ELSE {Parent(f)} \cup Ancestors(Parent(f))

\* The regular files reachable from directory p by descending through directories.
ReachableFiles(p) ==
    { f \in Nodes : /\ fs[f] = "file"
                    /\ p \in Ancestors(f)
                    /\ \A a \in Ancestors(f) : fs[a] = "dir" }

\* The hash_file calls that opened the file and read it to its end without error.
FullyRead(a) == a.opened /\ a.eof /\ a.hash_val.ok /\ a.hash_val.of = Content(a.file)

\* The records of the logged hash_file calls, in order.
LoggedRecords ==
    LET IsLogged(a) == a.logged
        sel == SelectSeq(attempts, IsLogged)
    IN [k \in 1 .. Len(sel) |-> LogLine(sel[k].file, argv.algo, sel[k].hash_val)]

\* The run got past argument parsing and path collection.
Collected == pc \in {"check", "hash", "write", "close", "exit"} /\ status # 2

\* The run ended by returning from main or by sys.exit.
Ended == pc = "exit" /\ status \in {0, 1, 2}

\* ----------------------------------------------------------------- claims

\* C1: every record written to the run log belongs to a hash_file call that
\* opened its file and read it to the end without error; a call whose open or
\* read failed leaves no record, only an error notice.
C1_RecordsOnlyForFullyRead ==
    /\ \A k \in 1 .. Len(attempts) :
          LET a == attempts[k]
          IN /\ a.logged => FullyRead(a)
             /\ ~(a.opened /\ a.eof) =>
                   /\ ~a.logged
                   /\ <<"Failed to hash", a.file>> \in Range(stderr)
    /\ written = LoggedRecords
    /\ disk \o out = disk0 \o written
    /\ \A f \in Nodes :
          Count(stderr, <<"Failed to hash", f>>) =
             Cardinality({ k \in 1 .. Len(attempts) :
                             attempts[k].file = f /\ ~FullyRead(attempts[k]) })

C1_Witness ==
    /\ pc = "exit"
    /\ \E a, b \in 1 .. Len(attempts) :
          /\ attempts[a].logged
          /\ attempts[b].opened /\ ~attempts[b].eof
    /\ \E c \in 1 .. Len(attempts) : ~attempts[c].opened

\* The hash_file calls so far follow all_files entry by entry.
C2_AttemptsInOrder ==
    /\ Len(attempts) <= Len(all_files)
    /\ \A k \in 1 .. Len(attempts) : attempts[k].file = all_files[k]

\* The run has ended normally, each entry of all_files hashed once and either
\* logged in the destination or noticed as failed.
C2_Finished ==
    /\ pc = "exit"
    /\ status = 0
    /\ Len(attempts) = Len(all_files)
    /\ \A k \in 1 .. Len(attempts) :
          \/ attempts[k].logged /\ LogLine(all_files[k], argv.algo, attempts[k].hash_val) \in Range(disk)
          \/ ~attempts[k].logged /\ <<"Failed to hash", all_files[k]>> \in Range(stderr)

\* C2: with a non-empty file list the run calls hash_file on every collected
\* file exactly once, in collection order, whether or not earlier files failed
\* (a failure neither ends the loop nor is retried), and it eventually ends
\* with every collected file either logged or noticed as failed.
C2_EveryFileAttemptedOnce ==
    /\ [](C2_AttemptsInOrder)
    /\ [](pc = "exit" /\ all_files # << >> => C2_Finished)
    /\ (pc = "check" /\ all_files # << >>) ~> C2_Finished

C2_Witness ==
    /\ pc = "exit"
    /\ Len(attempts) >= 3
    /\ ~attempts[1].logged
    /\ attempts[2].logged
    /\ ~attempts[3].opened

\* C3: if the file list is empty after collection, the run ends with an error
\* notice and status 1, and the output destination is neither created nor
\* modified.
C3_EmptyListExitsOne ==
    (Collected /\ all_files = << >>) =>
        /\ pc \in {"check", "exit"}
        /\ ~out_opened
        /\ exists = exists0
        /\ disk = disk0
        /\ out = << >>
        /\ pc = "exit" =>
              /\ status = 1
              /\ stderr # << >>
              /\ stderr[Len(stderr)] = <<"No valid files found.", "">>

C3_Witness ==
    /\ pc = "exit"
    /\ status = 1
    /\ ~exists
    /\ \E k \in 1 .. Len(argv.paths) : fs[argv.paths[k]] = "dir"
    /\ \E k \in 1 .. Len(argv.paths) : fs[argv.paths[k]] \in {"missing", "special"}

\* C4: the output destination is append-only: what it held before the run is
\* an unchanged prefix of what it holds afterwards, and the number of lines
\* it gains is the number of records the run wrote.
C4_AppendOnlyLineCount ==
    Ended =>
        /\ IsPrefix(disk0, disk)
        /\ TotalLines(disk) = Len(disk0) + Len(written)

\* The part of C4 that the code keeps: the destination only ever grows at its
\* end, and a finished run leaves the earlier content followed by its records.
C4_AppendOnly ==
    /\ IsPrefix(disk0, disk)
    /\ exists0 => exists
    /\ Ended => disk = disk0 \o written

C4_PrefixKept == [][IsPrefix(disk, disk')]_vars

\* C5: an --algo outside sha256, sha1, md5 is rejected at startup: no path is
\* collected, no input file and no output destination is opened, no record is
\* written.
C5_BadAlgoRejected ==
    argv.algo \notin {"sha256", "sha1", "md5"} =>
        /\ pc \in {"parse", "exit"}
        /\ all_files = << >>
        /\ attempts = << >>
        /\ written = << >>
        /\ ~out_opened
        /\ exists = exists0
        /\ disk = disk0
        /\ \A p \in Nodes : InvalidPath(p) \notin Range(stderr)
        /\ pc = "exit" => status = 2

C5_Witness ==
    /\ pc = "exit"
    /\ status = 2
    /\ argv.algo = "sha512"
    /\ \E k \in 1 .. Len(argv.paths) : fs[argv.paths[k]] = "file"

\* C6: each input path that is neither a regular file nor a directory gets
\* exactly one "Invalid path" notice naming it, collection goes on with the
\* other inputs, records are written only for files under the valid inputs,
\* and the run ends with status 0 when at least one file was resolved.
C6_InvalidPathsSkipped ==
    Collected =>
        /\ \A p \in Nodes :
              Count(stderr, InvalidPath(p)) =
                 IF fs[p] \in {"file", "dir"} THEN 0 ELSE Count(argv.paths, p)
        /\ Range(all_files) =
              { f \in Nodes : \E k \in 1 .. Len(argv.paths) :
                    \/ argv.paths[k] = f /\ fs[f] = "file"
                    \/ fs[argv.paths[k]] = "dir" /\ f \in ReachableFiles(argv.paths[k]) }
        /\ \A k \in 1 .. Len(written) : written[k].file \in Range(all_files)
        /\ (pc = "exit" /\ all_files # << >>) => status = 0

C6_Witness ==
    /\ pc = "exit"
    /\ status = 0
    /\ \E a, b \in 1 .. Len(argv.paths) :
          /\ fs[argv.paths[a]] \in {"missing", "special"}
          /\ fs[argv.paths[b]] = "dir"
    /\ Len(written) >= 2

\* C7: for one directory holding files and subdirectories with further files,
\* collect_files returns exactly the regular files reachable by recursion,
\* none of them twice, and no directory.
C7_CollectsReachableFiles ==
    (Collected /\ Len(argv.paths) = 1 /\ fs[argv.paths[1]] = "dir") =>
        /\ Range(all_files) = ReachableFiles(argv.paths[1])
        /\ NoDuplicates(all_files)
        /\ \A k \in 1 .. Len(all_files) : fs[all_files[k]] = "file"

C7_Witness ==
    /\ Collected
    /\ argv.paths = <<Dir>>
    /\ fs[SubDir] = "dir"
    /\ Range(all_files) = {DirFile, LfFile}

C9_ChunkingIndependent ==
    \A k \in 1 .. Len(attempts) :
        LET a == attempts[k]
        IN /\ a.hash_val.ok <=> (a.opened /\ a.eof)
           /\ a.hash_val.ok =>
                 /\ a.hash_val.of = data
                 /\ a.hash_val = Hexdigest(argv.algo, data)
                 /\ \A m \in 1 .. Len(attempts) :
                       attempts[m].hash_val.ok => attempts[m].hash_val = a.hash_val

C9_Witness ==
    /\ Len(attempts) = 2
    /\ Len(data) >= 2
    /\ attempts[1].chunk = 1
    /\ attempts[2].chunk = CHUNK_SIZE
    /\ attempts[1].hash_val.ok
    /\ attempts[2].hash_val.ok

\* C10: when the file list is non-empty and every file fails to hash, the run
\* still opens (and creates) the output destination, appends nothing to it and
\* ends with status 0; the destination stays untouched only when the file list
\* is empty.
C10_AllFailedStillOpens ==
    (Ended /\ status # 2) =>
        /\ (all_files # << >> /\ written = << >>) =>
              /\ out_opened
              /\ exists
              /\ disk = disk0
              /\ status = 0
        /\ (~out_opened /\ exists = exists0) <=> (all_files = << >>)

C10_Witness ==
    /\ pc = "exit"
    /\ Len(all_files) >= 2
    /\ written = << >>
    /\ ~exists0
    /\ exists
    /\ status = 0

====
